---- MODULE Spec2Model ----
(***************************************************************************)
(* Real-time messaging synchronisation of the Echo chat server             *)
(* (server/routes.ts, server/storage.ts).  Every handler is an async       *)
(* function: one action per code segment between two awaits.  The effect   *)
(* of an awaited store call is applied when the handler resumes.           *)
(* clientIdMap is written but never read by any handler and is left out.   *)
(***************************************************************************)
EXTENDS Bags, FiniteSets, Integers, Sequences

\* ---- bounds ----
MaxMessages == 2      \* message rows ever inserted
MaxRegs == 2          \* user_status frames ever handled
MaxReads == 2         \* read frames ever handled
MaxInFlight == 2      \* handlers suspended at an await at the same time
MaxOps == 3           \* frames and requests ever handled
MaxFetches == 1       \* GET /api/chats/:id/messages requests ever handled
MaxRequests == 2      \* connection_requests rows ever inserted

\* ---- small input sets ----
Users == {1, 2}
Conns == {1, 2}
Chats == {1}
Contents == {"hi"}
\* null / undefined
\* the accounts of the users table; user 3 never opens a session
Accounts == {1, 2, 3}
NoUser == 0
NoConn == NoUser
NoMsg == NoUser

\* clientId query parameter of the connection URL, per transport
UrlClientId == [w \in Conns |-> IF w = 2 THEN "c2" ELSE "c1"]
\* clientId field of a user_status payload ("" = absent)
PayloadClientIds == {"", "c2"}

VARIABLES
  readyState,        \* ws.readyState of each transport
  userId,            \* the connection handler's closure variable userId
  connectedClients,  \* Map<number, {ws, clientId}> as a set of entries
  messages,          \* messages table, row id = index
  userStatus,        \* users.status column
  chatParticipants,  \* chat_participants table
  handlers,          \* bag of handlers suspended at an await
  sent,              \* user_status frames broadcast by the last step
  outbox,            \* every message, message_sent and read frame sent so far
  lastFetch,         \* body of the last GET /api/chats/:id/messages response
  audit,             \* per message row: how it was submitted and routed
  lastReg,           \* per user: transport of the latest registration
  count,             \* frames handled so far
  connectionRequests, \* connection_requests table, row id = index
  chats,             \* ids of the rows of the chats table
  pushed,            \* frames of the other types sent by the last step
  inbound,           \* the frame of another type the last step took in
  thrown,            \* the pushes of message frames whose send threw
  response,          \* status of the last HTTP response sent, 0 before the first
  client,            \* module state of one browser's lib/socket.ts
  chatPage           \* that browser's Chat page: message cache and clock

vars == <<readyState, userId, connectedClients, messages, userStatus,
          chatParticipants, handlers, sent, outbox, lastFetch, audit,
          lastReg, count, connectionRequests, chats, pushed, inbound, thrown,
          response, client, chatPage>>

\* the variables the messaging handlers leave alone
requestVars == <<connectionRequests, chats, pushed, inbound, thrown, response,
                 client, chatPage>>

NoFrame == [ws |-> NoConn, type |-> "", seq |-> 0]

\* ---- Map<number, {ws, clientId}> ----
MapGet(M, u) == {e \in M : e.userId = u}
MapSetKeepOld(M, u, entry) == M \cup {entry}
MapSet(M, u, entry) == {e \in M : e.userId # u} \cup {entry}
MapDelete(M, u) == {e \in M : e.userId # u}

BagAdd(B, e) == B (+) SetToBag({e})
BagRemove(B, e) == B (-) SetToBag({e})
\* number of copies in bag B of the elements of S
CopiesOf(B, S) == BagCardinality([e \in S \cap BagToSet(B) |-> B[e]])

\* a frame on transport w addressed to user `to`; `by` is the user on whose
\* behalf the handler ran (not on the wire)
Frame(w, to, type, id, status, by) ==
  [ws |-> w, to |-> to, type |-> type, id |-> id, status |-> status, by |-> by]

Handler(kind, pc, w, u, mid, c, sender, content) ==
  [kind |-> kind, pc |-> pc, ws |-> w, user |-> u, mid |-> mid,
   chatId |-> c, sender |-> sender, content |-> content]

InFlight == BagCardinality(handlers)
Running == BagToSet(handlers)
Resume(h, pc) == BagAdd(BagRemove(handlers, h), [h EXCEPT !.pc = pc])

\* ---- helpers of routes.ts ----
isUserConnected(u) ==
  \E e \in connectedClients : e.userId = u /\ readyState[e.ws] = "OPEN"

Route(u) == (CHOOSE e \in connectedClients : e.userId = u).ws

\* frames of broadcastUserStatus(u, status) over the registry M
broadcastUserStatus(M, u, status) ==
  {Frame(e.ws, e.userId, "user_status", u, status, u) :
     e \in {x \in M : readyState[x.ws] = "OPEN"}}

\* ---- storage.ts ----
getChatParticipants(c) == {p.userId : p \in {q \in chatParticipants : q.chatId = c}}

createMessage(c, s, t) ==
  Append(messages, [id |-> Len(messages) + 1, chatId |-> c, senderId |-> s,
                    content |-> t, status |-> "sent", isRead |-> FALSE])

markMessageAsRead(mid) ==
  IF mid \in DOMAIN messages
    THEN [messages EXCEPT ![mid].isRead = TRUE]
    ELSE messages

\* db.update(messages).set({status}).where(eq(messages.id, mid))
updateStatus(mid, st) ==
  IF mid \in DOMAIN messages
    THEN [messages EXCEPT ![mid].status = st]
    ELSE messages

getMessagesByChatId(c) == SelectSeq(messages, LAMBDA m : m.chatId = c)

\* ---- the browser's module state (client/src/lib/socket.ts) ----
NoSocket == NoUser

\* sockets: readyState of every WebSocket created so far, socketInstance: the
\* index of the one the module variable holds; attempt: sessionStorage
\* 'ws-reconnect-attempt'; pendingMessages: localStorage 'pendingMessages';
\* timers: pending retry and replay timeouts, reconnects: pending reconnect
\* timeouts; calls and transmitted: sendMessage calls made and the number of
\* times each call's frame was handed to socket.send; closes, reconnectDelay:
\* close events handled and the delay the last one computed
createWebSocket(cl) ==
  IF /\ cl.socketInstance # NoSocket
     /\ cl.sockets[cl.socketInstance] \in {"OPEN", "CONNECTING"}
    THEN cl
  ELSE IF cl.isSocketConnecting THEN cl
  ELSE [cl EXCEPT !.isSocketConnecting = TRUE,
                  !.sockets = Append(@, "CONNECTING"),
                  !.socketInstance = Len(cl.sockets) + 1]

\* the module after useSocket's effect ran createWebSocket on a page whose
\* sessionStorage holds attempt a
Mounted(a) ==
  createWebSocket(
    [sockets |-> <<>>, socketInstance |-> NoSocket, isSocketConnecting |-> FALSE,
     attempt |-> a, pendingMessages |-> <<>>, timers |-> {}, reconnects |-> 0,
     calls |-> 0, types |-> <<>>, transmitted |-> <<>>, closes |-> 0,
     reconnectDelay |-> 0])

\* ---- the browser's Chat page (client/src/pages/Chat.tsx) ----
\* currentUser.id, another user, and the chat the page has selected
Me == 1
Peer == 2
selectedChatId == 1
\* Date.now() in seconds when the page opened; message ids of the server are
\* far below it
Epoch == 1000
NoPageFrame == [type |-> "", id |-> 0, chatId |-> 0, senderId |-> 0,
                content |-> "", status |-> ""]

\* the page after mount: the cache of ['/api/chats', selectedChatId,
\* 'messages'] in `messages`, the seconds since the page opened in `clock`,
\* the last frame the listener took and the number of frames taken
Opened == [messages |-> <<>>, clock |-> 0, frame |-> NoPageFrame, handled |-> 0]

Init ==
  /\ readyState = [w \in Conns |-> "NONE"]
  /\ userId = [w \in Conns |-> NoUser]
  /\ connectedClients = {}
  /\ messages = <<>>
  /\ userStatus = [u \in Users |-> "offline"]
  /\ chatParticipants = {[chatId |-> 1, userId |-> u] : u \in Users}
  /\ handlers = EmptyBag
  /\ sent = EmptyBag
  /\ outbox = EmptyBag
  /\ lastFetch = <<>>
  /\ audit = <<>>
  /\ lastReg = [u \in Users |-> [ws |-> NoConn, prev |-> NoConn]]
  /\ count = [reg |-> 0, read |-> 0, fetch |-> 0, ops |-> 0]
  /\ connectionRequests = <<>>
  /\ chats = {1}
  /\ pushed = {}
  /\ inbound = NoFrame
  /\ thrown = {}
  /\ response = 0
  /\ client = Mounted(0)
  /\ chatPage = Opened

\* wss.on('connection')
Connect(w) ==
  /\ readyState[w] = "NONE"
  /\ readyState' = [readyState EXCEPT ![w] = "OPEN"]
  /\ sent' = EmptyBag
  /\ UNCHANGED <<userId, connectedClients, messages, userStatus,
                 chatParticipants, handlers, outbox, lastFetch, audit,
                 lastReg, count>>
  /\ UNCHANGED requestVars

\* ---- ws 'message' event, case 'user_status' ----
\* readyState after existingConnection.ws.close() on the stale entries
closeExisting(stale) ==
  [c \in Conns |->
     IF readyState[c] = "OPEN" /\ \E e \in stale : e.ws = c
       THEN "CLOSING" ELSE readyState[c]]

\* synchronous part: bind, evict, install, call updateUserStatus
UserStatusFrame(w, uid, pcid) ==
  LET messageClientId == IF pcid # "" THEN pcid ELSE UrlClientId[w]
      existingConnection == MapGet(connectedClients, uid)
      stale == {e \in existingConnection : e.clientId # messageClientId}
  IN
  /\ readyState[w] \in {"OPEN", "CLOSING"}
  /\ count.reg < MaxRegs /\ count.ops < MaxOps
  /\ userId' = [userId EXCEPT ![w] = uid]
  /\ count' = [count EXCEPT !.reg = @ + 1, !.ops = @ + 1]
  /\ sent' = EmptyBag
  /\ IF uid # NoUser
       THEN /\ InFlight < MaxInFlight
            /\ readyState' = closeExisting(stale)
            /\ connectedClients' =
                 MapSet(connectedClients, uid,
                        [userId |-> uid, ws |-> w, clientId |-> messageClientId])
            /\ handlers' = BagAdd(handlers,
                 Handler("user_status", "updateUserStatus", w, uid, NoMsg, 0, NoUser, ""))
            /\ lastReg' = [lastReg EXCEPT ![uid] =
                 [ws |-> w,
                  prev |-> IF stale = {} THEN NoConn
                           ELSE (CHOOSE e \in stale : TRUE).ws]]
       ELSE UNCHANGED <<readyState, connectedClients, handlers, lastReg>>
  /\ UNCHANGED <<messages, userStatus, chatParticipants, outbox, lastFetch, audit>>
  /\ UNCHANGED requestVars

\* after await storage.updateUserStatus(userId, 'online'): broadcast
UserStatusResume(h) ==
  /\ h.kind = "user_status"
  /\ userStatus' = [userStatus EXCEPT ![h.user] = "online"]
  /\ sent' = SetToBag(broadcastUserStatus(connectedClients, userId[h.ws], "online"))
  /\ handlers' = BagRemove(handlers, h)
  /\ UNCHANGED <<readyState, userId, connectedClients, messages,
                 chatParticipants, outbox, lastFetch, audit, lastReg, count>>
  /\ UNCHANGED requestVars

\* ---- ws 'close' event ----
\* registry left by connectedClients.delete(userId) in the handler of transport w
unregisterOwn(M, u, w) == {e \in M : ~(e.userId = u /\ e.ws = w)}
unregister(M, u, w) == MapDelete(M, u)

CloseEvent(w) ==
  /\ readyState[w] \in {"OPEN", "CLOSING"}
  /\ readyState' = [readyState EXCEPT ![w] = "CLOSED"]
  /\ sent' = EmptyBag
  /\ IF userId[w] # NoUser
       THEN /\ InFlight < MaxInFlight
            /\ handlers' = BagAdd(handlers,
                 Handler("close", "updateUserStatus", w, userId[w], NoMsg, 0, NoUser, ""))
       ELSE UNCHANGED handlers
  /\ UNCHANGED <<userId, connectedClients, messages, userStatus,
                 chatParticipants, outbox, lastFetch, audit, lastReg, count>>
  /\ UNCHANGED requestVars

\* after await storage.updateUserStatus(userId, 'offline'): delete, broadcast
CloseResume(h) ==
  /\ h.kind = "close"
  /\ userStatus' = [userStatus EXCEPT ![h.user] = "offline"]
  /\ connectedClients' = unregister(connectedClients, userId[h.ws], h.ws)
  /\ sent' = SetToBag(broadcastUserStatus(connectedClients', userId[h.ws], "offline"))
  /\ handlers' = BagRemove(handlers, h)
  /\ UNCHANGED <<readyState, userId, messages, chatParticipants, outbox,
                 lastFetch, audit, lastReg, count>>
  /\ UNCHANGED requestVars

\* ---- message submission, shared by both paths ----
\* rows plus submissions that have not reached the insert yet
Submitted ==
  Len(messages) + CopiesOf(handlers, {h \in Running : h.pc = "createMessage"})

\* participants other than `me` that isUserConnected() holds for
notifyTargets(c, me) ==
  {p \in getChatParticipants(c) : p # me /\ isUserConnected(p)}

someParticipantConnected(c, me) ==
  \E p \in getChatParticipants(c) : isUserConnected(p)

\* participants.some(p => p.id !== me && isUserConnected(p.id))
someRecipientConnected(c, me) ==
  \E p \in getChatParticipants(c) : p # me /\ isUserConnected(p)

pushedStatusStored(saved) == saved.status

\* status field of the copy pushed to recipients by the ws 'message' handler
pushedStatus(saved) == "delivered"

\* what a row's audit records: the path it came by, the users other than the
\* submitter that had an open registered transport when the handler looked
\* for recipients, whether the sender's session was open when it finished
ReachableOthers(c, me) ==
  {p \in Users : /\ p # me
                 /\ [chatId |-> c, userId |-> p] \in chatParticipants
                 /\ \E w \in Conns : /\ readyState[w] = "OPEN"
                                     /\ \E e \in connectedClients :
                                          e.userId = p /\ e.ws = w}

NewAudit(via) ==
  [via |-> via, reach |-> {}, senderOpen |-> FALSE, done |-> FALSE]

\* ---- ws 'message' event, case 'message' ----
\* guard and insertMessageSchema.parse, then call storage.createMessage
WsMessageFrame(w, c, s, t) ==
  /\ readyState[w] \in {"OPEN", "CLOSING"}
  /\ userId[w] # NoUser
  /\ Submitted < MaxMessages /\ count.ops < MaxOps
  /\ InFlight < MaxInFlight
  /\ handlers' = BagAdd(handlers,
       Handler("message", "createMessage", w, NoUser, NoMsg, c, s, t))
  /\ sent' = EmptyBag
  /\ count' = [count EXCEPT !.ops = @ + 1]
  /\ UNCHANGED <<readyState, userId, connectedClients, messages, userStatus,
                 chatParticipants, outbox, lastFetch, audit, lastReg>>
  /\ UNCHANGED requestVars

\* createMessage resolved; call storage.getChatParticipants
MessageInsert(h) ==
  /\ h.kind = "message" /\ h.pc = "createMessage"
  /\ messages' = createMessage(h.chatId, h.sender, h.content)
  /\ audit' = Append(audit, NewAudit("ws"))
  /\ handlers' = BagAdd(BagRemove(handlers, h),
       [h EXCEPT !.pc = "getChatParticipants", !.mid = Len(messages) + 1])
  /\ sent' = EmptyBag
  /\ UNCHANGED <<readyState, userId, connectedClients, userStatus,
                 chatParticipants, outbox, lastFetch, lastReg, count>>
  /\ UNCHANGED requestVars

\* the message_sent confirmation, only if the sender's WebSocket is open
confirmation(h, status) ==
  IF readyState[h.ws] = "OPEN"
    THEN {Frame(h.ws, userId[h.ws], "message_sent", h.mid, status, userId[h.ws])}
    ELSE {}

\* participants resolved: push loop, then either call db.update or confirm
MessageRoute(h) ==
  LET saved == messages[h.mid]
      me == userId[h.ws]
      targets == notifyTargets(saved.chatId, me)
      pushes == {Frame(Route(p), p, "message", saved.id, pushedStatus(saved), me) :
                   p \in targets}
      anyOnline == someRecipientConnected(saved.chatId, me)
      acks == IF anyOnline THEN {} ELSE confirmation(h, "sent")
  IN
  /\ h.kind = "message" /\ h.pc = "getChatParticipants"
  /\ outbox' = outbox (+) SetToBag(pushes \cup acks)
  /\ sent' = EmptyBag
  /\ handlers' = IF anyOnline THEN Resume(h, "updateStatus")
                              ELSE BagRemove(handlers, h)
  /\ audit' = [audit EXCEPT ![h.mid] =
       [@ EXCEPT !.reach = ReachableOthers(saved.chatId, me),
                 !.senderOpen = ~anyOnline /\ readyState[h.ws] = "OPEN",
                 !.done = ~anyOnline]]
  /\ UNCHANGED <<readyState, userId, connectedClients, messages, userStatus,
                 chatParticipants, lastFetch, lastReg, count>>
  /\ UNCHANGED requestVars

\* db.update(status 'delivered') resolved; confirm to the sender
MessageAck(h) ==
  /\ h.kind = "message" /\ h.pc = "updateStatus"
  /\ messages' = updateStatus(h.mid, "delivered")
  /\ outbox' = outbox (+) SetToBag(confirmation(h, "delivered"))
  /\ sent' = EmptyBag
  /\ handlers' = BagRemove(handlers, h)
  /\ audit' = [audit EXCEPT ![h.mid] =
       [@ EXCEPT !.senderOpen = readyState[h.ws] = "OPEN",
                 !.done = TRUE]]
  /\ UNCHANGED <<readyState, userId, connectedClients, userStatus,
                 chatParticipants, lastFetch, lastReg, count>>
  /\ UNCHANGED requestVars

\* ---- POST /api/messages ----
\* senderId := authenticated user, parse, call storage.createMessage
PostMessage(u, c, t) ==
  /\ Submitted < MaxMessages /\ count.ops < MaxOps
  /\ InFlight < MaxInFlight
  /\ handlers' = BagAdd(handlers,
       Handler("post", "createMessage", NoConn, u, NoMsg, c, u, t))
  /\ sent' = EmptyBag
  /\ count' = [count EXCEPT !.ops = @ + 1]
  /\ UNCHANGED <<readyState, userId, connectedClients, messages, userStatus,
                 chatParticipants, outbox, lastFetch, audit, lastReg>>
  /\ UNCHANGED requestVars

PostInsert(h) ==
  /\ h.kind = "post" /\ h.pc = "createMessage"
  /\ messages' = createMessage(h.chatId, h.sender, h.content)
  /\ audit' = Append(audit, NewAudit("http"))
  /\ handlers' = BagAdd(BagRemove(handlers, h),
       [h EXCEPT !.pc = "getChatParticipants", !.mid = Len(messages) + 1])
  /\ sent' = EmptyBag
  /\ UNCHANGED <<readyState, userId, connectedClients, userStatus,
                 chatParticipants, outbox, lastFetch, lastReg, count>>
  /\ UNCHANGED requestVars

\* participants resolved: decide the status; without an update the push loop
\* runs at once (and finds nobody) and the response is sent
PostDecide(h) ==
  LET saved == messages[h.mid]
      shouldUpdateStatus == someRecipientConnected(saved.chatId, h.user)
  IN
  /\ h.kind = "post" /\ h.pc = "getChatParticipants"
  /\ sent' = EmptyBag
  /\ handlers' = IF shouldUpdateStatus THEN Resume(h, "updateStatus")
                                       ELSE BagRemove(handlers, h)
  /\ audit' = [audit EXCEPT ![h.mid] =
       [@ EXCEPT !.reach = ReachableOthers(saved.chatId, h.user),
                 !.senderOpen = ~shouldUpdateStatus /\ isUserConnected(saved.senderId),
                 !.done = ~shouldUpdateStatus]]
  /\ UNCHANGED <<readyState, userId, connectedClients, messages, userStatus,
                 chatParticipants, outbox, lastFetch, lastReg, count>>
  /\ response' = IF shouldUpdateStatus THEN response ELSE 201
  /\ UNCHANGED <<connectionRequests, chats, pushed, inbound, thrown, client, chatPage>>

\* db.update(status 'delivered') resolved; push loop; res.status(201)
PostPush(h) ==
  LET saved == messages[h.mid]
      targets == notifyTargets(saved.chatId, h.user)
      pushes == {Frame(Route(p), p, "message", saved.id, "delivered", h.user) :
                   p \in targets}
  IN
  /\ h.kind = "post" /\ h.pc = "updateStatus"
  /\ messages' = updateStatus(h.mid, "delivered")
  /\ outbox' = outbox (+) SetToBag(pushes)
  /\ sent' = EmptyBag
  /\ handlers' = BagRemove(handlers, h)
  /\ audit' = [audit EXCEPT ![h.mid] =
       [@ EXCEPT !.reach = @ \cup ReachableOthers(saved.chatId, h.user),
                 !.senderOpen = isUserConnected(saved.senderId),
                 !.done = TRUE]]
  /\ UNCHANGED <<readyState, userId, connectedClients, userStatus,
                 chatParticipants, lastFetch, lastReg, count>>
  /\ response' = 201
  /\ UNCHANGED <<connectionRequests, chats, pushed, inbound, thrown, client, chatPage>>

\* ---- ws 'message' event, case 'read' ----
ReadFrame(w, mid) ==
  /\ readyState[w] \in {"OPEN", "CLOSING"}
  /\ userId[w] # NoUser
  /\ count.read < MaxReads /\ count.ops < MaxOps
  /\ InFlight < MaxInFlight
  /\ count' = [count EXCEPT !.read = @ + 1, !.ops = @ + 1]
  /\ handlers' = BagAdd(handlers,
       Handler("read", "markMessageAsRead", w, NoUser, mid, 0, NoUser, ""))
  /\ sent' = EmptyBag
  /\ UNCHANGED <<readyState, userId, connectedClients, messages, userStatus,
                 chatParticipants, outbox, lastFetch, audit, lastReg>>
  /\ UNCHANGED requestVars

\* markMessageAsRead resolved: undefined ends the handler, a row leads to
\* the call of db.update(status 'read')
ReadMark(h) ==
  /\ h.kind = "read" /\ h.pc = "markMessageAsRead"
  /\ messages' = markMessageAsRead(h.mid)
  /\ handlers' = IF h.mid \in DOMAIN messages
       THEN BagAdd(BagRemove(handlers, h),
              [h EXCEPT !.pc = "updateStatus", !.sender = messages[h.mid].senderId])
       ELSE BagRemove(handlers, h)
  /\ sent' = EmptyBag
  /\ UNCHANGED <<readyState, userId, connectedClients, userStatus,
                 chatParticipants, outbox, lastFetch, audit, lastReg, count>>
  /\ UNCHANGED requestVars

\* db.update(status 'read') resolved; call storage.getUser(senderId)
ReadUpdate(h) ==
  /\ h.kind = "read" /\ h.pc = "updateStatus"
  /\ messages' = updateStatus(h.mid, "read")
  /\ handlers' = Resume(h, "getUser")
  /\ sent' = EmptyBag
  /\ UNCHANGED <<readyState, userId, connectedClients, userStatus,
                 chatParticipants, outbox, lastFetch, audit, lastReg, count>>
  /\ UNCHANGED requestVars

receiptTargetsAnyReader(sender, reader) ==
  IF sender \in Users /\ isUserConnected(sender) THEN {sender} ELSE {}

\* users the read receipt of a message sent by `sender` goes to
receiptTargets(sender, reader) ==
  IF sender \in Users /\ sender # reader /\ isUserConnected(sender)
    THEN {sender} ELSE {}

\* getUser resolved: notify the sender
ReadNotify(h) ==
  LET reader == userId[h.ws]
      receipts == {Frame(Route(p), p, "read", h.mid, "read", reader) :
                     p \in receiptTargets(h.sender, reader)}
  IN
  /\ h.kind = "read" /\ h.pc = "getUser"
  /\ outbox' = outbox (+) SetToBag(receipts)
  /\ sent' = EmptyBag
  /\ handlers' = BagRemove(handlers, h)
  /\ UNCHANGED <<readyState, userId, connectedClients, messages, userStatus,
                 chatParticipants, lastFetch, audit, lastReg, count>>
  /\ UNCHANGED requestVars

\* ---- GET /api/chats/:id/messages ----
Fetch(c) ==
  /\ count.fetch < MaxFetches /\ count.ops < MaxOps
  /\ count' = [count EXCEPT !.fetch = @ + 1, !.ops = @ + 1]
  /\ lastFetch' = getMessagesByChatId(c)
  /\ sent' = EmptyBag
  /\ UNCHANGED <<readyState, userId, connectedClients, messages, userStatus,
                 chatParticipants, handlers, outbox, audit, lastReg>>
  /\ UNCHANGED requestVars

Next ==
  \/ \E w \in Conns : Connect(w)
  \/ \E w \in Conns, uid \in Users \cup {NoUser}, pcid \in PayloadClientIds :
       UserStatusFrame(w, uid, pcid)
  \/ \E h \in Running : UserStatusResume(h)
  \/ \E w \in Conns : CloseEvent(w)
  \/ \E h \in Running : CloseResume(h)
  \/ \E w \in Conns, c \in Chats, s \in Users, t \in Contents :
       WsMessageFrame(w, c, s, t)
  \/ \E h \in Running : MessageInsert(h)
  \/ \E h \in Running : MessageRoute(h)
  \/ \E h \in Running : MessageAck(h)
  \/ \E u \in Users, c \in Chats, t \in Contents : PostMessage(u, c, t)
  \/ \E h \in Running : PostInsert(h)
  \/ \E h \in Running : PostDecide(h)
  \/ \E h \in Running : PostPush(h)
  \/ \E w \in Conns, mid \in 1..MaxMessages : ReadFrame(w, mid)
  \/ \E h \in Running : ReadMark(h)
  \/ \E h \in Running : ReadUpdate(h)
  \/ \E h \in Running : ReadNotify(h)
  \/ \E c \in Chats : Fetch(c)

Spec == Init /\ [][Next]_vars

\* user 1 with an established session and one message of user 1 stored while
\* nobody else was reachable, as left by Connect(1), UserStatusFrame(1, 1, ""),
\* UserStatusResume, PostMessage(1, 1, "hi"), PostInsert and PostDecide;
\* count starts over
SessionState ==
  /\ readyState = [w \in Conns |-> IF w = 1 THEN "OPEN" ELSE "NONE"]
  /\ userId = [w \in Conns |-> IF w = 1 THEN 1 ELSE NoUser]
  /\ connectedClients = {[userId |-> 1, ws |-> 1, clientId |-> UrlClientId[1]]}
  /\ messages = <<[id |-> 1, chatId |-> 1, senderId |-> 1, content |-> "hi",
                   status |-> "sent", isRead |-> FALSE]>>
  /\ userStatus = [u \in Users |-> IF u = 1 THEN "online" ELSE "offline"]
  /\ chatParticipants = {[chatId |-> 1, userId |-> u] : u \in Users}
  /\ handlers = EmptyBag
  /\ sent = EmptyBag
  /\ outbox = EmptyBag
  /\ lastFetch = <<>>
  /\ audit = <<[via |-> "http", reach |-> {}, senderOpen |-> TRUE, done |-> TRUE]>>
  /\ lastReg = [u \in Users |-> [ws |-> IF u = 1 THEN 1 ELSE NoConn, prev |-> NoConn]]
  /\ connectionRequests = <<>>
  /\ chats = {1}
  /\ pushed = {}
  /\ inbound = NoFrame
  /\ thrown = {}
  /\ response = 201
  /\ client = Mounted(0)
  /\ chatPage = Opened

InitSession ==
  /\ SessionState
  /\ count = [reg |-> 0, read |-> 0, fetch |-> 0, ops |-> 0]

SpecSession == InitSession /\ [][Next]_vars

\* the state InitSession starts from is one Spec reaches
SessionReached == SessionState

SessionNeverReached == ~SessionReached

\* ---- connection requests (storage.ts) ----
\* new Date() / defaultNow(), read as the number of requests handled so far
now == count.ops

Pair(a, b) == {a, b}

getConnectionRequestByUsers(s, r) ==
  {q \in DOMAIN connectionRequests :
     connectionRequests[q].senderId = s /\ connectionRequests[q].receiverId = r}

createConnectionRequest(s, r) ==
  Append(connectionRequests,
         [id |-> Len(connectionRequests) + 1, senderId |-> s, receiverId |-> r,
          status |-> "pending", updatedAt |-> now])

updateConnectionRequestStatus(rid, status) ==
  IF rid \in DOMAIN connectionRequests
    THEN [connectionRequests EXCEPT ![rid].status = status, ![rid].updatedAt = now]
    ELSE connectionRequests

getChatsByUserId(u) ==
  {c \in chats : [chatId |-> c, userId |-> u] \in chatParticipants}

\* id of the row storage.createChat inserts
newChatId == Cardinality(chats) + 1

addParticipantToChat(c, u) == chatParticipants \cup {[chatId |-> c, userId |-> u]}

\* a frame of another type on transport w addressed to user `to`
Push(w, to, type, id, users, flag) ==
  [ws |-> w, to |-> to, type |-> type, id |-> id, users |-> users, flag |-> flag]

\* connectedClients.get(u)?.ws.send(...): nothing without an entry
sendTo(u, type, id, users, flag) ==
  {Push(e.ws, u, type, id, users, flag) : e \in MapGet(connectedClients, u)}

\* a suspended handler of a connection-request route
Request(kind, pc, user, rid, status, other, chat, todo) ==
  [kind |-> kind, pc |-> pc, user |-> user, rid |-> rid, status |-> status,
   other |-> other, chat |-> chat, todo |-> todo]

messagingVars == <<messages, userStatus, sent, outbox, lastFetch, audit, lastReg,
                   client, chatPage>>
sessionVars == <<readyState, userId, connectedClients>>

\* ---- POST /api/connection-requests ----
\* senderId := authenticated user, parse, call getConnectionRequestByUsers
PostRequest(u, r) ==
  /\ count.ops < MaxOps /\ InFlight < MaxInFlight
  /\ count' = [count EXCEPT !.ops = @ + 1]
  /\ handlers' = BagAdd(handlers,
       Request("request", "getConnectionRequestByUsers", u, 0, "", r, 0, {}))
  /\ pushed' = {}
  /\ UNCHANGED <<connectionRequests, chats, chatParticipants>>
  /\ UNCHANGED <<messagingVars, sessionVars, inbound, thrown, response>>

\* which stored requests make POST answer 400
existingRequest(s, r) == getConnectionRequestByUsers(s, r)

\* lookup resolved: 400 if a request exists, else call createConnectionRequest
RequestCheck(h) ==
  /\ h.kind = "request" /\ h.pc = "getConnectionRequestByUsers"
  /\ handlers' = IF existingRequest(h.user, h.other) # {}
                   THEN BagRemove(handlers, h)
                   ELSE Resume(h, "createConnectionRequest")
  /\ pushed' = {}
  /\ UNCHANGED <<connectionRequests, chats, chatParticipants, count>>
  /\ response' = IF existingRequest(h.user, h.other) # {} THEN 400 ELSE response
  /\ UNCHANGED <<messagingVars, sessionVars, inbound, thrown>>

\* insert resolved; call getUser if the receiver is connected, else 201
RequestCreate(h) ==
  /\ h.kind = "request" /\ h.pc = "createConnectionRequest"
  /\ Len(connectionRequests) < MaxRequests
  /\ connectionRequests' = createConnectionRequest(h.user, h.other)
  /\ handlers' = IF isUserConnected(h.other)
       THEN BagAdd(BagRemove(handlers, h),
              [h EXCEPT !.pc = "getUser", !.rid = Len(connectionRequests) + 1])
       ELSE BagRemove(handlers, h)
  /\ pushed' = {}
  /\ UNCHANGED <<chats, chatParticipants, count>>
  /\ response' = IF isUserConnected(h.other) THEN response ELSE 201
  /\ UNCHANGED <<messagingVars, sessionVars, inbound, thrown>>

\* getUser resolved: receiverClient?.ws.send(connection_request); 201
RequestNotify(h) ==
  /\ h.kind = "request" /\ h.pc = "getUser"
  /\ pushed' = sendTo(h.other, "connection_request", h.rid, {h.user}, "pending")
  /\ handlers' = BagRemove(handlers, h)
  /\ UNCHANGED <<connectionRequests, chats, chatParticipants, count>>
  /\ response' = 201
  /\ UNCHANGED <<messagingVars, sessionVars, inbound, thrown>>

\* ---- PATCH /api/connection-requests/:id ----
\* id and status checks, then call updateConnectionRequestStatus
PatchRequest(u, rid, status) ==
  /\ status \in {"accepted", "rejected"}
  /\ count.ops < MaxOps /\ InFlight < MaxInFlight
  /\ count' = [count EXCEPT !.ops = @ + 1]
  /\ handlers' = BagAdd(handlers,
       Request("patch", "updateConnectionRequestStatus", u, rid, status, NoUser, 0, {}))
  /\ pushed' = {}
  /\ UNCHANGED <<connectionRequests, chats, chatParticipants>>
  /\ UNCHANGED <<messagingVars, sessionVars, inbound, thrown, response>>

\* update resolved: 404 without a row; else connection_response to the
\* request's sender if connected, and on accept call getChatsByUserId
PatchUpdate(h) ==
  LET found == h.rid \in DOMAIN connectionRequests
      senderId == connectionRequests[h.rid].senderId
  IN
  /\ h.kind = "patch" /\ h.pc = "updateConnectionRequestStatus"
  /\ connectionRequests' = updateConnectionRequestStatus(h.rid, h.status)
  /\ pushed' = IF found /\ isUserConnected(senderId)
       THEN sendTo(senderId, "connection_response", h.rid, {h.user}, h.status)
       ELSE {}
  /\ handlers' = IF found /\ h.status = "accepted"
       THEN BagAdd(BagRemove(handlers, h),
              [h EXCEPT !.pc = "getChatsByUserId", !.other = senderId])
       ELSE BagRemove(handlers, h)
  /\ UNCHANGED <<chats, chatParticipants, count>>
  /\ response' = IF ~found THEN 404 ELSE IF h.status = "accepted" THEN response ELSE 200
  /\ UNCHANGED <<messagingVars, sessionVars, inbound, thrown>>

Min(S) == CHOOSE x \in S : \A y \in S : x <= y

\* userChats resolved: start the for loop, or call createChat at once
PatchChats(h) ==
  LET userChats == getChatsByUserId(h.user) IN
  /\ h.kind = "patch" /\ h.pc = "getChatsByUserId"
  /\ handlers' = IF userChats = {}
       THEN Resume(h, "createChat")
       ELSE BagAdd(BagRemove(handlers, h),
              [h EXCEPT !.pc = "getChatParticipants", !.todo = userChats])
  /\ pushed' = {}
  /\ UNCHANGED <<connectionRequests, chats, chatParticipants, count>>
  /\ UNCHANGED <<messagingVars, sessionVars, inbound, thrown, response>>

\* participants of the next chat resolved: existing chat ends the handler,
\* else next chat, or call createChat after the last one
PatchParticipants(h) ==
  LET chat == Min(h.todo)
      rest == h.todo \ {chat}
  IN
  /\ h.kind = "patch" /\ h.pc = "getChatParticipants"
  /\ handlers' =
       IF h.other \in getChatParticipants(chat) THEN BagRemove(handlers, h)
       ELSE IF rest # {}
         THEN BagAdd(BagRemove(handlers, h), [h EXCEPT !.todo = rest])
         ELSE BagAdd(BagRemove(handlers, h),
                [h EXCEPT !.pc = "createChat", !.todo = {}])
  /\ pushed' = {}
  /\ UNCHANGED <<connectionRequests, chats, chatParticipants, count>>
  /\ response' = IF h.other \in getChatParticipants(chat) THEN 200 ELSE response
  /\ UNCHANGED <<messagingVars, sessionVars, inbound, thrown>>

\* createChat resolved; call addParticipantToChat(currentUser)
PatchCreateChat(h) ==
  /\ h.kind = "patch" /\ h.pc = "createChat"
  /\ chats' = chats \cup {newChatId}
  /\ handlers' = BagAdd(BagRemove(handlers, h),
       [h EXCEPT !.pc = "addParticipantToChat", !.chat = newChatId])
  /\ pushed' = {}
  /\ UNCHANGED <<connectionRequests, chatParticipants, count>>
  /\ UNCHANGED <<messagingVars, sessionVars, inbound, thrown, response>>

\* first insert resolved; call addParticipantToChat(updatedRequest.senderId)
PatchAddSelf(h) ==
  /\ h.kind = "patch" /\ h.pc = "addParticipantToChat"
  /\ chatParticipants' = addParticipantToChat(h.chat, h.user)
  /\ handlers' = Resume(h, "addSender")
  /\ pushed' = {}
  /\ UNCHANGED <<connectionRequests, chats, count>>
  /\ UNCHANGED <<messagingVars, sessionVars, inbound, thrown, response>>

\* second insert resolved; call getChatParticipants(newChat.id)
PatchAddSender(h) ==
  /\ h.kind = "patch" /\ h.pc = "addSender"
  /\ chatParticipants' = addParticipantToChat(h.chat, h.other)
  /\ handlers' = Resume(h, "enhance")
  /\ pushed' = {}
  /\ UNCHANGED <<connectionRequests, chats, count>>
  /\ UNCHANGED <<messagingVars, sessionVars, inbound, thrown, response>>

catchPatchRollsBack(rid) == updateConnectionRequestStatus(rid, "pending")
\* connection_requests after the catch of the PATCH route: it only answers
catchPatch(rid) == connectionRequests

\* createChat or one of the two addParticipantToChat calls rejected: the
\* catch of the route answers 500
PatchFails(h) ==
  /\ h.kind = "patch"
  /\ h.pc \in {"createChat", "addParticipantToChat", "addSender"}
  /\ connectionRequests' = catchPatch(h.rid)
  /\ response' = 500
  /\ pushed' = {}
  /\ handlers' = BagRemove(handlers, h)
  /\ UNCHANGED <<chats, chatParticipants, count>>
  /\ UNCHANGED <<messagingVars, sessionVars, inbound, thrown>>

\* users the chat_created frame of a chat made by `me` for `sender` goes to
chatCreatedTargets(me, sender) == {u \in {me, sender} : isUserConnected(u)}

\* participants resolved: chat_created to both users if connected; respond
PatchNotify(h) ==
  LET participants == getChatParticipants(h.chat) IN
  /\ h.kind = "patch" /\ h.pc = "enhance"
  /\ pushed' = UNION {sendTo(u, "chat_created", h.chat, participants, "null") :
                        u \in chatCreatedTargets(h.user, h.other)}
  /\ handlers' = BagRemove(handlers, h)
  /\ UNCHANGED <<connectionRequests, chats, chatParticipants, count>>
  /\ response' = 200
  /\ UNCHANGED <<messagingVars, sessionVars, inbound, thrown>>

NextRequests ==
  \/ \E u \in Users, r \in Users : PostRequest(u, r)
  \/ \E h \in Running : RequestCheck(h)
  \/ \E h \in Running : RequestCreate(h)
  \/ \E h \in Running : RequestNotify(h)
  \/ \E u \in Accounts, rid \in 1..MaxRequests, status \in {"accepted", "rejected"} :
       PatchRequest(u, rid, status)
  \/ \E h \in Running : PatchUpdate(h)
  \/ \E h \in Running : PatchChats(h)
  \/ \E h \in Running : PatchParticipants(h)
  \/ \E h \in Running : PatchCreateChat(h)
  \/ \E h \in Running : PatchAddSelf(h)
  \/ \E h \in Running : PatchAddSender(h)
  \/ \E h \in Running : PatchFails(h)
  \/ \E h \in Running : PatchNotify(h)

\* a database without chats; user 1 has an established session, user 2 has
\* one or has not connected yet
SessionsOf(on) ==
  /\ readyState = [w \in Conns |-> IF w \in on THEN "OPEN" ELSE "NONE"]
  /\ userId = [w \in Conns |-> IF w \in on THEN w ELSE NoUser]
  /\ connectedClients =
       {[userId |-> w, ws |-> w, clientId |-> UrlClientId[w]] : w \in on}
  /\ userStatus = [u \in Users |-> IF u \in on THEN "online" ELSE "offline"]
  /\ lastReg = [u \in Users |-> [ws |-> IF u \in on THEN u ELSE NoConn, prev |-> NoConn]]

InitRequests ==
  /\ \E on \in {{1}, {1, 2}} : SessionsOf(on)
  /\ messages = <<>>
  /\ chatParticipants = {}
  /\ handlers = EmptyBag
  /\ sent = EmptyBag
  /\ outbox = EmptyBag
  /\ lastFetch = <<>>
  /\ audit = <<>>
  /\ count = [reg |-> 0, read |-> 0, fetch |-> 0, ops |-> 0]
  /\ connectionRequests = <<>>
  /\ chats = {}
  /\ pushed = {}
  /\ inbound = NoFrame
  /\ thrown = {}
  /\ response = 0
  /\ client = Mounted(0)
  /\ chatPage = Opened

SpecRequests == InitRequests /\ [][NextRequests]_vars

\* ---- ws 'message' event, the other frame types ----
\* the userId part of the guards `if (userId && ...)`
boundAlways(w) == TRUE
bound(w) == userId[w] # NoUser

\* isTyping field of a typing payload
TypingValues == {"true", "false", "absent"}

\* a suspended handler of one of these frames
Task(kind, pc, w, id, target, flag) ==
  [kind |-> kind, pc |-> pc, ws |-> w, id |-> id, target |-> target, flag |-> flag]

Took(w, type) == [ws |-> w, type |-> type, seq |-> count.ops + 1]

storeVars == <<messages, userStatus, chatParticipants, connectionRequests, chats>>
otherVars == <<sent, outbox, lastFetch, audit, lastReg, thrown, response,
               client, chatPage>>

\* a frame whose guard fails or whose case only logs: the handler returns
Ignored(w, type) ==
  /\ inbound' = Took(w, type)
  /\ count' = [count EXCEPT !.ops = @ + 1]
  /\ pushed' = {}
  /\ UNCHANGED <<handlers, sessionVars, storeVars, otherVars>>

\* a task starts and suspends at its first await
Started(w, type, task) ==
  /\ InFlight < MaxInFlight
  /\ inbound' = Took(w, type)
  /\ count' = [count EXCEPT !.ops = @ + 1]
  /\ handlers' = BagAdd(handlers, task)
  /\ pushed' = {}
  /\ UNCHANGED <<sessionVars, storeVars, otherVars>>

\* 'message' and 'read' frames on a connection whose userId is unset
UnboundFrame(w, type) ==
  /\ readyState[w] = "OPEN" /\ count.ops < MaxOps
  /\ ~bound(w)
  /\ Ignored(w, type)

\* case 'typing': guard, then call storage.getChatParticipants
TypingFrame(w, c, isTyping) ==
  /\ readyState[w] = "OPEN" /\ count.ops < MaxOps
  /\ IF bound(w) /\ c # 0
       THEN Started(w, "typing", Task("typing", "getChatParticipants", w, c, NoUser, isTyping))
       ELSE Ignored(w, "typing")

\* the relayed typing frame: payload { userId, chatId }
typingPayload(h) == "absent"

\* participants resolved: relay to the connected participants other than userId
TypingRelay(h) ==
  LET me == userId[h.ws] IN
  /\ h.kind = "typing"
  /\ pushed' = UNION {sendTo(p, "typing", h.id, {me}, typingPayload(h)) :
                        p \in notifyTargets(h.id, me)}
  /\ handlers' = BagRemove(handlers, h)
  /\ UNCHANGED <<sessionVars, storeVars, otherVars, count, inbound>>

\* case 'call_request': client looked up, then call storage.getUser
CallRequestFrame(w, recipientId) ==
  /\ readyState[w] = "OPEN" /\ count.ops < MaxOps
  /\ IF bound(w) /\ recipientId # NoUser /\ isUserConnected(recipientId)
       THEN Started(w, "call_request",
              Task("call_request", "getUser", w, Route(recipientId), recipientId, ""))
       ELSE Ignored(w, "call_request")

\* caller resolved: client?.ws.send(call_request) on the transport looked up
CallRequestRelay(h) ==
  /\ h.kind = "call_request"
  /\ pushed' = {Push(h.id, h.target, "call_request", 0, {userId[h.ws]}, "")}
  /\ handlers' = BagRemove(handlers, h)
  /\ UNCHANGED <<sessionVars, storeVars, otherVars, count, inbound>>

\* case 'call_response': no await
CallResponseFrame(w, callerId, accepted) ==
  /\ readyState[w] = "OPEN" /\ count.ops < MaxOps
  /\ IF bound(w) /\ callerId # NoUser
       THEN /\ inbound' = Took(w, "call_response")
            /\ count' = [count EXCEPT !.ops = @ + 1]
            /\ pushed' = IF isUserConnected(callerId)
                 THEN sendTo(callerId, "call_response", 0, {userId[w]}, accepted)
                 ELSE {}
            /\ UNCHANGED <<handlers, sessionVars, storeVars, otherVars>>
       ELSE Ignored(w, "call_response")

\* case 'connection_request': logs only
ConnectionRequestFrame(w) ==
  /\ readyState[w] = "OPEN" /\ count.ops < MaxOps
  /\ Ignored(w, "connection_request")

\* case 'connection_response': guard, then call fetch()
ConnectionResponseFrame(w, rid) ==
  /\ readyState[w] = "OPEN" /\ count.ops < MaxOps
  /\ IF bound(w) /\ rid # 0
       THEN Started(w, "connection_response",
              Task("connection_response", "fetch", w, rid, NoUser, ""))
       ELSE Ignored(w, "connection_response")

\* fetch() settled: notification after it resolved, error after it rejected
ConnectionResponseDone(h, resolved) ==
  /\ h.kind = "connection_response"
  /\ pushed' = {Push(h.ws, userId[h.ws],
                     IF resolved THEN "notification" ELSE "error", 0, {}, "")}
  /\ handlers' = BagRemove(handlers, h)
  /\ UNCHANGED <<sessionVars, storeVars, otherVars, count, inbound>>

\* ---- malformed frames ----
\* "json": text JSON.parse rejects; "no_payload": a typing frame without
\* payload; "no_userId": a user_status frame whose payload has no userId;
\* "bad_message": a message frame whose message fails insertMessageSchema
MalformedKinds == {"json", "no_payload", "no_userId", "bad_message"}

errorFrameDropped(w) == {}
\* the error frame a catch block sends on the transport of the handler
errorFrame(w) == {Push(w, userId[w], "error", 0, {}, "")}

\* whether the frame makes the handler throw into one of its catch blocks
throws(w, kind) ==
  CASE kind = "json" -> TRUE
    [] kind = "no_payload" -> bound(w)
    [] kind = "bad_message" -> bound(w)
    [] OTHER -> FALSE

MalformedFrame(w, kind) ==
  /\ readyState[w] = "OPEN" /\ count.ops < MaxOps
  /\ inbound' = Took(w, kind)
  /\ count' = [count EXCEPT !.ops = @ + 1]
  /\ pushed' = IF throws(w, kind) THEN errorFrame(w) ELSE {}
  /\ userId' = IF kind = "no_userId" THEN [userId EXCEPT ![w] = NoUser] ELSE userId
  /\ UNCHANGED <<readyState, connectedClients, handlers, storeVars, otherVars>>

\* useMessageListener, case 'typing': the value handed to onTypingIndicator
isTypingRead(flag) == IF flag = "absent" THEN TRUE ELSE flag = "true"

NextFrames ==
  \/ \E w \in Conns, type \in {"message", "read"} : UnboundFrame(w, type)
  \/ \E w \in Conns, c \in Chats \cup {0}, isTyping \in TypingValues :
       TypingFrame(w, c, isTyping)
  \/ \E h \in Running : TypingRelay(h)
  \/ \E w \in Conns, r \in Users \cup {NoUser} : CallRequestFrame(w, r)
  \/ \E h \in Running : CallRequestRelay(h)
  \/ \E w \in Conns, r \in Users \cup {NoUser}, a \in {"true", "false"} :
       CallResponseFrame(w, r, a)
  \/ \E w \in Conns : ConnectionRequestFrame(w)
  \/ \E w \in Conns, rid \in {0, 1} : ConnectionResponseFrame(w, rid)
  \/ \E h \in Running, resolved \in BOOLEAN : ConnectionResponseDone(h, resolved)
  \/ \E w \in Conns, kind \in MalformedKinds : MalformedFrame(w, kind)
  \/ \E w \in Conns : CloseEvent(w)
  \/ \E h \in Running : CloseResume(h)

\* both transports open; user 1 has registered on transport 1, user 2 has
\* registered on transport 2 or has sent no user_status frame yet
InitFrames ==
  /\ \E on \in {{1}, {1, 2}} :
       /\ userId = [w \in Conns |-> IF w \in on THEN w ELSE NoUser]
       /\ connectedClients =
            {[userId |-> w, ws |-> w, clientId |-> UrlClientId[w]] : w \in on}
       /\ userStatus = [u \in Users |-> IF u \in on THEN "online" ELSE "offline"]
       /\ lastReg = [u \in Users |-> [ws |-> IF u \in on THEN u ELSE NoConn, prev |-> NoConn]]
  /\ readyState = [w \in Conns |-> "OPEN"]
  /\ messages = <<>>
  /\ chatParticipants = {[chatId |-> 1, userId |-> u] : u \in Users}
  /\ handlers = EmptyBag
  /\ sent = EmptyBag
  /\ outbox = EmptyBag
  /\ lastFetch = <<>>
  /\ audit = <<>>
  /\ count = [reg |-> 0, read |-> 0, fetch |-> 0, ops |-> 0]
  /\ connectionRequests = <<>>
  /\ chats = {1}
  /\ pushed = {}
  /\ inbound = NoFrame
  /\ thrown = {}
  /\ response = 0
  /\ client = Mounted(0)
  /\ chatPage = Opened

SpecFrames == InitFrames /\ [][NextFrames]_vars

\* ---- a send that throws in a push loop ----
\* recipients the forEach reached before the send to p threw
reachedBefore(targets, p) == {q \in targets : q < p}

\* ws 'message' handler, participants resolved: the send to p throws out of
\* the forEach into the catch of the case, which sends an error frame
MessageRouteThrows(h, p) ==
  LET saved == messages[h.mid]
      me == userId[h.ws]
      targets == notifyTargets(saved.chatId, me)
      pushes == {Frame(Route(q), q, "message", saved.id, pushedStatus(saved), me) :
                   q \in reachedBefore(targets, p)}
  IN
  /\ h.kind = "message" /\ h.pc = "getChatParticipants"
  /\ p \in targets
  /\ outbox' = outbox (+) SetToBag(pushes)
  /\ pushed' = errorFrame(h.ws)
  /\ thrown' = thrown \cup {[id |-> h.mid, to |-> p]}
  /\ handlers' = BagRemove(handlers, h)
  /\ audit' = [audit EXCEPT ![h.mid] =
       [@ EXCEPT !.reach = ReachableOthers(saved.chatId, me),
                 !.senderOpen = readyState[h.ws] = "OPEN",
                 !.done = TRUE]]
  /\ sent' = EmptyBag
  /\ UNCHANGED <<sessionVars, storeVars, lastFetch, lastReg, count, inbound,
                 response, client, chatPage>>

\* POST /api/messages, db.update resolved: the send to p throws out of the
\* forEach into the catch of the route, which answers 500
PostPushThrows(h, p) ==
  LET saved == messages[h.mid]
      targets == notifyTargets(saved.chatId, h.user)
      pushes == {Frame(Route(q), q, "message", saved.id, "delivered", h.user) :
                   q \in reachedBefore(targets, p)}
  IN
  /\ h.kind = "post" /\ h.pc = "updateStatus"
  /\ p \in targets
  /\ messages' = updateStatus(h.mid, "delivered")
  /\ outbox' = outbox (+) SetToBag(pushes)
  /\ thrown' = thrown \cup {[id |-> h.mid, to |-> p]}
  /\ handlers' = BagRemove(handlers, h)
  /\ audit' = [audit EXCEPT ![h.mid] =
       [@ EXCEPT !.reach = @ \cup ReachableOthers(saved.chatId, h.user),
                 !.senderOpen = isUserConnected(saved.senderId),
                 !.done = TRUE]]
  /\ sent' = EmptyBag
  /\ response' = 500
  /\ UNCHANGED <<sessionVars, userStatus, chatParticipants, connectionRequests,
                 chats, lastFetch, lastReg, count, pushed, inbound, client, chatPage>>

NextFault ==
  \/ \E w \in Conns, c \in Chats, s \in Users, t \in Contents :
       WsMessageFrame(w, c, s, t)
  \/ \E h \in Running : MessageInsert(h)
  \/ \E h \in Running : MessageRoute(h)
  \/ \E h \in Running, p \in Users : MessageRouteThrows(h, p)
  \/ \E h \in Running : MessageAck(h)
  \/ \E u \in Users, c \in Chats, t \in Contents : PostMessage(u, c, t)
  \/ \E h \in Running : PostInsert(h)
  \/ \E h \in Running : PostDecide(h)
  \/ \E h \in Running : PostPush(h)
  \/ \E h \in Running, p \in Users : PostPushThrows(h, p)
  \/ \E w \in Conns : CloseEvent(w)
  \/ \E h \in Running : CloseResume(h)

\* users 1 and 2 with established sessions; the participants of chat 1 are
\* users 1 and 2, or users 2 and 3
InitFault ==
  /\ SessionsOf({1, 2})
  /\ messages = <<>>
  /\ \E members \in {Users, Accounts \ {1}} :
       chatParticipants = {[chatId |-> 1, userId |-> u] : u \in members}
  /\ handlers = EmptyBag
  /\ sent = EmptyBag
  /\ outbox = EmptyBag
  /\ lastFetch = <<>>
  /\ audit = <<>>
  /\ count = [reg |-> 0, read |-> 0, fetch |-> 0, ops |-> 0]
  /\ connectionRequests = <<>>
  /\ chats = {1}
  /\ pushed = {}
  /\ inbound = NoFrame
  /\ thrown = {}
  /\ response = 0
  /\ client = Mounted(0)
  /\ chatPage = Opened

SpecFault == InitFault /\ [][NextFault]_vars

\* ---- a submission that fails validation or whose insert is rejected ----
\* a chatId or senderId field that is missing from the payload
Absent == 0 - 1
\* a message payload without content, mediaUrl and mediaType
NoContent == ""
\* a chat id without a row in the chats table
MissingChat == 2

ChatIds == Chats \cup {MissingChat, Absent}
Bodies == Contents \cup {NoContent}

\* insertMessageSchema.parse succeeds: chatId and senderId are required
\* numbers, content, mediaUrl and mediaType are nullable and optional
insertMessageSchema(c, s, t) == c # Absent /\ s # Absent

\* the foreign keys of the messages table hold for the new row
references(c, s) == c \in chats /\ s \in Accounts

\* ws 'message' handler: insertMessageSchema.parse throws into the catch of
\* the case, which sends an error frame
InvalidMessageFrame(w, c, s, t) ==
  /\ readyState[w] \in {"OPEN", "CLOSING"} /\ count.ops < MaxOps
  /\ bound(w)
  /\ ~insertMessageSchema(c, s, t)
  /\ inbound' = Took(w, "bad_message")
  /\ count' = [count EXCEPT !.ops = @ + 1]
  /\ pushed' = errorFrame(w)
  /\ UNCHANGED <<handlers, sessionVars, storeVars, otherVars>>

\* ws 'message' handler: createMessage rejected (a foreign key that does not
\* hold, or the store failing); the catch of the case sends an error frame
MessageInsertRejected(h) ==
  /\ h.kind = "message" /\ h.pc = "createMessage"
  /\ pushed' = errorFrame(h.ws)
  /\ handlers' = BagRemove(handlers, h)
  /\ UNCHANGED <<sessionVars, storeVars, otherVars, count, inbound>>

\* POST /api/messages: insertMessageSchema.parse throws a ZodError, answer 400
InvalidPost(u, c, t) ==
  /\ count.ops < MaxOps
  /\ ~insertMessageSchema(c, u, t)
  /\ inbound' = Took(NoConn, "bad_post")
  /\ count' = [count EXCEPT !.ops = @ + 1]
  /\ response' = 400
  /\ UNCHANGED <<handlers, sessionVars, storeVars, sent, outbox, lastFetch,
                 audit, lastReg, thrown, pushed, client, chatPage>>

\* POST /api/messages: createMessage rejected, the catch answers 500
PostInsertRejected(h) ==
  /\ h.kind = "post" /\ h.pc = "createMessage"
  /\ response' = 500
  /\ handlers' = BagRemove(handlers, h)
  /\ UNCHANGED <<sessionVars, storeVars, sent, outbox, lastFetch, audit,
                 lastReg, thrown, pushed, count, inbound, client, chatPage>>

NextPersist ==
  \/ \E w \in Conns, c \in ChatIds, s \in Users, t \in Bodies :
       insertMessageSchema(c, s, t) /\ WsMessageFrame(w, c, s, t)
  \/ \E w \in Conns, c \in ChatIds, s \in Users, t \in Bodies :
       InvalidMessageFrame(w, c, s, t)
  \/ \E h \in Running : references(h.chatId, h.sender) /\ MessageInsert(h)
  \/ \E h \in Running : MessageInsertRejected(h)
  \/ \E h \in Running : MessageRoute(h)
  \/ \E h \in Running : MessageAck(h)
  \/ \E u \in Users, c \in ChatIds, t \in Bodies :
       insertMessageSchema(c, u, t) /\ PostMessage(u, c, t)
  \/ \E u \in Users, c \in ChatIds, t \in Bodies : InvalidPost(u, c, t)
  \/ \E h \in Running : references(h.chatId, h.sender) /\ PostInsert(h)
  \/ \E h \in Running : PostInsertRejected(h)
  \/ \E h \in Running : PostDecide(h)
  \/ \E h \in Running : PostPush(h)

\* user 1 with an established session, user 2 with one or not connected yet,
\* both participants of chat 1
InitPersist ==
  /\ \E on \in {{1}, {1, 2}} : SessionsOf(on)
  /\ messages = <<>>
  /\ chatParticipants = {[chatId |-> 1, userId |-> u] : u \in Users}
  /\ handlers = EmptyBag
  /\ sent = EmptyBag
  /\ outbox = EmptyBag
  /\ lastFetch = <<>>
  /\ audit = <<>>
  /\ count = [reg |-> 0, read |-> 0, fetch |-> 0, ops |-> 0]
  /\ connectionRequests = <<>>
  /\ chats = {1}
  /\ pushed = {}
  /\ inbound = NoFrame
  /\ thrown = {}
  /\ response = 0
  /\ client = Mounted(0)
  /\ chatPage = Opened

SpecPersist == InitPersist /\ [][NextPersist]_vars

\* ---- client/src/lib/socket.ts: sending and reconnecting ----
MaxCalls == 2         \* sendMessage calls
MaxSockets == 2       \* WebSocket objects ever created
MaxAttempt == 5       \* stored reconnect attempt count on page load

\* close codes: normal, going away, abnormal, server error
Codes == {1000, 1001, 1006, 1011}
urgentReconnectCodes == {1006}
normalClosureCodes == {1000, 1001}
maxRetries == 3

serverVars == <<readyState, userId, connectedClients, messages, userStatus,
                chatParticipants, handlers, sent, outbox, lastFetch, audit,
                lastReg, count, connectionRequests, chats, pushed, inbound,
                thrown, response>>

Max(S) == CHOOSE x \in S : \A y \in S : x >= y

\* socketInstance?.readyState === WebSocket.OPEN
isOpen(cl) ==
  cl.socketInstance # NoSocket /\ cl.sockets[cl.socketInstance] = "OPEN"

\* Math.min(baseDelay * Math.pow(2, currentAttempt), maxDelay)
exponentialDelay(currentAttempt) == Min({1000 * 2^currentAttempt, 30000})

\* the delay onclose hands to setTimeout
reconnectDelay(code, currentAttempt) ==
  IF code \in urgentReconnectCodes
    THEN Min({1000, exponentialDelay(currentAttempt)})
  ELSE IF code \in normalClosureCodes
    THEN Max({2000, exponentialDelay(currentAttempt)})
  ELSE exponentialDelay(currentAttempt)

Timer(kind, call, i) == [kind |-> kind, call |-> call, i |-> i]

\* socket.send(JSON.stringify(message)) for the frame of call m
transmit(cl, m) == [cl EXCEPT !.transmitted[m] = @ + 1]

\* pendingMessages.push(...), keeping the last 50
enqueue(q, m) ==
  LET pushedBack == Append(q, m) IN
  IF Len(pushedBack) > 50 THEN Tail(pushedBack) ELSE pushedBack

\* sendMessage(message) applied to the module state cl: immediate attempt; on
\* failure three retry timeouts and createWebSocket unless a connection
\* attempt is under way
sendMessage(cl, type) ==
  LET m == cl.calls + 1
      open == isOpen(cl)
      retries == {Timer("retry", m, i) : i \in 1..maxRetries}
      called == [cl EXCEPT !.calls = m,
                           !.types = Append(@, type),
                           !.transmitted = Append(@, IF open THEN 1 ELSE 0),
                           !.timers = IF open THEN @ ELSE @ \cup retries]
  IN IF open \/ called.isSocketConnecting THEN called ELSE createWebSocket(called)

\* the message types the pages hand to sendMessage
SentTypes == {"message", "read"}

\* a page calls sendMessage
SendMessage ==
  /\ client.calls < MaxCalls
  /\ \E type \in SentTypes : client' = sendMessage(client, type)
  /\ Len(client'.sockets) <= MaxSockets
  /\ UNCHANGED <<serverVars, chatPage>>

\* retry timeout i of a call (500 ms, 1000 ms, 2000 ms after the call): send
\* if the current socket is open; the last one queues the message otherwise
RetryTimer(t) ==
  LET fired == [client EXCEPT !.timers = @ \ {t}] IN
  /\ t \in client.timers /\ t.kind = "retry"
  /\ \A u \in client.timers : ~(u.kind = "retry" /\ u.call = t.call /\ u.i < t.i)
  /\ client' =
       IF isOpen(client) THEN transmit(fired, t.call)
       ELSE IF t.i = maxRetries /\ client.types[t.call] = "message"
         THEN [fired EXCEPT !.pendingMessages = enqueue(@, t.call)]
       ELSE fired
  /\ UNCHANGED <<serverVars, chatPage>>

\* onopen of socket k; `valid` are the positions of the queued messages
\* younger than 10 minutes
OnOpen(k, valid) ==
  LET q == client.pendingMessages IN
  /\ k \in DOMAIN client.sockets /\ client.sockets[k] = "CONNECTING"
  /\ valid \subseteq DOMAIN q
  /\ client' = [client EXCEPT
       !.sockets[k] = "OPEN",
       !.isSocketConnecting = FALSE,
       !.attempt = 0,
       !.timers = @ \cup {Timer("replay", q[i], i) : i \in valid},
       !.pendingMessages = <<>>]
  /\ UNCHANGED <<serverVars, chatPage>>

\* replay timeout of a queued message: send if the current socket is open
ReplayTimer(t) ==
  LET fired == [client EXCEPT !.timers = @ \ {t}] IN
  /\ t \in client.timers /\ t.kind = "replay"
  /\ client' = IF isOpen(client) THEN transmit(fired, t.call) ELSE fired
  /\ UNCHANGED <<serverVars, chatPage>>

\* the closing handshake of socket k starts (the server sent a Close frame):
\* readyState becomes CLOSING, the close event follows later
ClosingStarted(k) ==
  /\ k \in DOMAIN client.sockets /\ client.sockets[k] = "OPEN"
  /\ client' = [client EXCEPT !.sockets[k] = "CLOSING"]
  /\ UNCHANGED <<serverVars, chatPage>>

\* onclose of socket k with close code `code`
OnClose(k, code) ==
  LET currentAttempt == client.attempt IN
  /\ k \in DOMAIN client.sockets
  /\ client.sockets[k] \in {"CONNECTING", "OPEN", "CLOSING"}
  /\ currentAttempt <= MaxAttempt
  /\ client' = [client EXCEPT
       !.sockets[k] = "CLOSED",
       !.isSocketConnecting = FALSE,
       !.socketInstance = NoSocket,
       !.attempt = currentAttempt + 1,
       !.reconnectDelay = reconnectDelay(code, currentAttempt),
       !.reconnects = @ + 1,
       !.closes = @ + 1]
  /\ UNCHANGED <<serverVars, chatPage>>

\* the reconnect timeout: createWebSocket()
ReconnectTimer ==
  /\ client.reconnects > 0
  /\ client' = createWebSocket([client EXCEPT !.reconnects = @ - 1])
  /\ Len(client'.sockets) <= MaxSockets
  /\ UNCHANGED <<serverVars, chatPage>>

NextClient ==
  \/ SendMessage
  \/ \E t \in client.timers : RetryTimer(t)
  \/ \E k \in 1..MaxSockets, valid \in SUBSET (1..MaxCalls) : OnOpen(k, valid)
  \/ \E t \in client.timers : ReplayTimer(t)
  \/ \E k \in 1..MaxSockets : ClosingStarted(k)
  \/ \E k \in 1..MaxSockets, code \in Codes : OnClose(k, code)
  \/ ReconnectTimer

\* a page that has just mounted useSocket, with any stored attempt count
InitClient ==
  /\ \E a \in 0..MaxAttempt : client = Mounted(a)
  /\ chatPage = Opened
  /\ readyState = [w \in Conns |-> "NONE"]
  /\ userId = [w \in Conns |-> NoUser]
  /\ connectedClients = {}
  /\ messages = <<>>
  /\ userStatus = [u \in Users |-> "offline"]
  /\ chatParticipants = {[chatId |-> 1, userId |-> u] : u \in Users}
  /\ handlers = EmptyBag
  /\ sent = EmptyBag
  /\ outbox = EmptyBag
  /\ lastFetch = <<>>
  /\ audit = <<>>
  /\ lastReg = [u \in Users |-> [ws |-> NoConn, prev |-> NoConn]]
  /\ count = [reg |-> 0, read |-> 0, fetch |-> 0, ops |-> 0]
  /\ connectionRequests = <<>>
  /\ chats = {1}
  /\ pushed = {}
  /\ inbound = NoFrame
  /\ thrown = {}
  /\ response = 0

SpecClient == InitClient /\ [][NextClient]_vars

\* ---- client/src/pages/Chat.tsx: the message cache of the selected chat ----
\* The refetch that follows an invalidateQueries is left out: it replaces
\* the cache by the rows of the server at some later time.
MaxIds == 2           \* message ids the server has assigned
MaxFrames == 2        \* frames the Chat page's listener takes
MaxClock == 6         \* seconds the Chat page stays open
Texts == {"hi", "yo"}
MessageIds == 1..MaxIds
Ack == {"sent", "delivered"}

\* Date.now(), in seconds
DateNow(page) == Epoch + page.clock

\* the listener of useMessageListener has taken frame f
took(page, f) == [page EXCEPT !.frame = f, !.handled = @ + 1]

\* messageExists of onNewMessage: an entry with the id of the message, or one
\* with its content and sender sent less than 5000 ms from it
messageExists(old, message) ==
  \E i \in DOMAIN old :
    \/ old[i].id = message.id /\ message.id # 0
    \/ /\ old[i].content = message.content
       /\ old[i].senderId = message.senderId
       /\ LET d == old[i].sentAt - message.sentAt IN (IF d < 0 THEN 0 - d ELSE d) < 5

\* the updater onNewMessage hands to setQueryData
onNewMessage(old, message) ==
  IF messageExists(old, message) THEN old ELSE Append(old, message)

\* the updater onMessageSent hands to setQueryData: entries with the id of
\* the frame, and for status 'sent' those with an id above Date.now() - 10000
onMessageSent(old, messageId, status, dateNow) ==
  [i \in DOMAIN old |->
     IF \/ old[i].id = messageId
        \/ status = "sent" /\ old[i].id > dateNow - 10
       THEN [old[i] EXCEPT !.id = messageId, !.status = status]
       ELSE old[i]]

\* the updater onReadReceipt hands to setQueryData
onReadReceipt(old, messageId) ==
  [i \in DOMAIN old |->
     IF old[i].id = messageId
       THEN [old[i] EXCEPT !.status = "read", !.isRead = TRUE]
       ELSE old[i]]

\* time passes on the page
Tick ==
  /\ \E d \in {1, 5} :
       /\ chatPage.clock + d <= MaxClock
       /\ chatPage' = [chatPage EXCEPT !.clock = @ + d]
  /\ UNCHANGED <<serverVars, client>>

\* handleSendMessage(content): optimistic entry with the temporary id
\* Date.now(), then sendMessage({type: 'message'}); two calls never fall in
\* the same millisecond
HandleSendMessage ==
  /\ client.calls < MaxCalls
  /\ \A i \in DOMAIN chatPage.messages : chatPage.messages[i].id # DateNow(chatPage)
  /\ \E content \in Texts :
       chatPage' = [chatPage EXCEPT !.messages =
                      Append(@, [id |-> DateNow(chatPage), senderId |-> Me,
                                 content |-> content, isRead |-> FALSE,
                                 sentAt |-> DateNow(chatPage),
                                 status |-> "sending"])]
  /\ client' = sendMessage(client, "message")
  /\ Len(client'.sockets) <= MaxSockets
  /\ UNCHANGED serverVars

\* a 'message' frame arrives: nothing for a message of the current user; for
\* the selected chat the cache is updated and a 'read' frame is sent; a
\* message of another chat only raises a toast
NewMessage ==
  /\ chatPage.handled < MaxFrames
  /\ \E id \in MessageIds, chatId \in {selectedChatId, selectedChatId + 1},
        senderId \in {Me, Peer}, content \in Texts :
       LET message == [id |-> id, senderId |-> senderId, content |-> content,
                       isRead |-> FALSE, sentAt |-> DateNow(chatPage),
                       status |-> "sent"]
           f == [type |-> "message", id |-> id, chatId |-> chatId,
                 senderId |-> senderId, content |-> content, status |-> "sent"]
       IN IF senderId = Me \/ chatId # selectedChatId
            THEN /\ chatPage' = took(chatPage, f)
                 /\ UNCHANGED client
            ELSE /\ client.calls < MaxCalls
                 /\ chatPage' = took([chatPage EXCEPT
                                        !.messages = onNewMessage(@, message)], f)
                 /\ client' = sendMessage(client, "read")
                 /\ Len(client'.sockets) <= MaxSockets
  /\ UNCHANGED serverVars

\* a 'message_sent' frame arrives: the listener calls onMessageSent when the
\* payload has a messageId and a status
MessageSent ==
  /\ chatPage.handled < MaxFrames
  /\ \E messageId \in {0} \cup MessageIds, status \in Ack :
       LET f == [type |-> "message_sent", id |-> messageId,
                 chatId |-> selectedChatId, senderId |-> Me, content |-> "",
                 status |-> status]
       IN chatPage' = took([chatPage EXCEPT !.messages =
                              IF messageId # 0
                                THEN onMessageSent(@, messageId, status,
                                                   DateNow(chatPage))
                                ELSE @], f)
  /\ UNCHANGED <<serverVars, client>>

\* a 'read' frame arrives: the listener calls onReadReceipt when the payload
\* has a messageId
ReadReceipt ==
  /\ chatPage.handled < MaxFrames
  /\ \E messageId \in {0} \cup MessageIds :
       LET f == [type |-> "read", id |-> messageId, chatId |-> selectedChatId,
                 senderId |-> Peer, content |-> "", status |-> "read"]
       IN chatPage' = took([chatPage EXCEPT !.messages =
                              IF messageId # 0 THEN onReadReceipt(@, messageId)
                              ELSE @], f)
  /\ UNCHANGED <<serverVars, client>>

NextChat ==
  \/ Tick
  \/ HandleSendMessage
  \/ NewMessage
  \/ MessageSent
  \/ ReadReceipt

\* the page opened on the selected chat, the socket of the module connecting;
\* the cache holds what GET /api/chats/:id/messages returned: nothing, or
\* message 1, sent by the current user
InitChat ==
  /\ client = Mounted(0)
  /\ \E st \in Ack :
       chatPage \in {Opened,
                     [Opened EXCEPT !.messages =
                        <<[id |-> 1, senderId |-> Me, content |-> "hi",
                           isRead |-> FALSE, sentAt |-> Epoch, status |-> st]>>]}
  /\ readyState = [w \in Conns |-> "NONE"]
  /\ userId = [w \in Conns |-> NoUser]
  /\ connectedClients = {}
  /\ messages = <<>>
  /\ userStatus = [u \in Users |-> "offline"]
  /\ chatParticipants = {[chatId |-> 1, userId |-> u] : u \in Users}
  /\ handlers = EmptyBag
  /\ sent = EmptyBag
  /\ outbox = EmptyBag
  /\ lastFetch = <<>>
  /\ audit = <<>>
  /\ lastReg = [u \in Users |-> [ws |-> NoConn, prev |-> NoConn]]
  /\ count = [reg |-> 0, read |-> 0, fetch |-> 0, ops |-> 0]
  /\ connectionRequests = <<>>
  /\ chats = {1}
  /\ pushed = {}
  /\ inbound = NoFrame
  /\ thrown = {}
  /\ response = 0

SpecChat == InitChat /\ [][NextChat]_vars

\* ---- properties ----
StatusRank(st) ==
  CASE st = "sent" -> 1 [] st = "delivered" -> 2 [] st = "read" -> 3 [] OTHER -> 0

FramesOf(B, type, mid) ==
  CopiesOf(B, {f \in BagToSet(B) : f.type = type /\ f.id = mid})

\* the step in which handler h leaves the bag or moves to pc
Finishes(h) == handlers' = BagRemove(handlers, h)
MovesTo(h, pc) == handlers' = Resume(h, pc)

\* C1: the stored status of a message never moves backward in the order
\* sent < delivered < read, in any step of any handler
C1_StatusNeverRegresses ==
  [][\A m \in DOMAIN messages :
       StatusRank(messages'[m].status) >= StatusRank(messages[m].status)]_vars

\* C2: the registry never holds two entries for a user, and a registration
\* of u with a client id other than the one of u's entry leaves exactly one
\* entry for u, with the registering transport and the new client id, and
\* the old entry's transport is no longer open
C2_RegistryUnique ==
  [][/\ \A u \in Users : Cardinality(MapGet(connectedClients', u)) <= 1
     /\ \A u \in Users :
          \A old \in MapGet(connectedClients, u) :
            \A new \in MapGet(connectedClients', u) :
              (count'.reg # count.reg /\ new.clientId # old.clientId) =>
                /\ MapGet(connectedClients', u) =
                     {[userId |-> u, ws |-> lastReg'[u].ws, clientId |-> new.clientId]}
                /\ userId'[lastReg'[u].ws] = u
                /\ readyState'[old.ws] # "OPEN"]_vars

\* a registration has replaced a session with another client id on another
\* transport, which is closing
C2_Witness ==
  \E u \in Users :
    /\ lastReg[u].prev \notin {NoConn, lastReg[u].ws}
    /\ readyState[lastReg[u].prev] = "CLOSING"
    /\ MapGet(connectedClients, u) =
         {[userId |-> u, ws |-> lastReg[u].ws, clientId |-> UrlClientId[lastReg[u].ws]]}

\* C3: the close handler of a transport leaves the registry as it is when
\* the user's entry refers to another transport (it was replaced)
C3_StaleCloseIsNoOp ==
  [][\A h \in Running :
       (/\ h.kind = "close"
        /\ Finishes(h)
        /\ \E e \in connectedClients : e.userId = userId[h.ws] /\ e.ws # h.ws)
       => connectedClients' = connectedClients]_vars

\* C4: a message with the same chatId, senderId and content submitted over
\* both paths is persisted as one row
C4_OneRowAcrossPaths ==
  \A i, j \in DOMAIN messages :
    (/\ messages[i].chatId = messages[j].chatId
     /\ messages[i].senderId = messages[j].senderId
     /\ messages[i].content = messages[j].content
     /\ audit[i].via # audit[j].via) => i = j

\* C5: however many read frames are handled for a message, at most one read
\* receipt is pushed for it
C5_OneReceipt ==
  \A m \in DOMAIN messages : FramesOf(outbox, "read", m) <= 1

\* C6: once a message's handler has finished with the sender's session open,
\* exactly one message_sent frame for the message has been sent, on either path
C6_OneConfirmation ==
  \A m \in DOMAIN messages :
    (audit[m].done /\ audit[m].senderOpen) =>
      FramesOf(outbox, "message_sent", m) = 1

\* C7: for a message submitted over the live transport, every participant
\* reachable at routing was pushed a message frame with status delivered, no
\* message frame carries another status, and the sender's open transport got
\* message_sent with status delivered
C7_LiveDelivered ==
  \A m \in DOMAIN messages :
    audit[m].via = "ws" =>
      /\ \A p \in audit[m].reach :
           \E f \in BagToSet(outbox) :
             /\ f.type = "message" /\ f.id = m /\ f.to = p
             /\ f.status = "delivered"
      /\ \A f \in BagToSet(outbox) :
           (f.type = "message" /\ f.id = m) => f.status = "delivered"
      /\ (audit[m].done /\ audit[m].reach # {} /\ audit[m].senderOpen) =>
           /\ FramesOf(outbox, "message_sent", m) = 1
           /\ \A f \in BagToSet(outbox) :
                (f.type = "message_sent" /\ f.id = m) => f.status = "delivered"

\* a live submission was routed to a reachable participant and confirmed
C7_Witness ==
  \E m \in DOMAIN messages :
    /\ audit[m].via = "ws" /\ audit[m].done
    /\ audit[m].reach # {} /\ audit[m].senderOpen

C9_ReceiptToSenderOnly ==
  [][/\ \A f \in BagToSet(outbox') :
          f.type = "read" =>
            /\ f.id \in DOMAIN messages'
            /\ f.to = messages'[f.id].senderId
            /\ f.to # f.by
     /\ \A f \in BagToSet(outbox' (-) outbox) :
          f.type = "read" =>
            \E e \in connectedClients :
              e.userId = f.to /\ e.ws = f.ws /\ readyState[e.ws] = "OPEN"
     /\ \A h \in Running :
          (h.kind = "read" /\ h.pc = "updateStatus" /\ MovesTo(h, "getUser")) =>
            messages'[h.mid].status = "read" /\ messages'[h.mid].isRead]_vars

\* a read receipt was pushed for a message stored as read
C9_Witness ==
  \E f \in BagToSet(outbox) :
    /\ f.type = "read" /\ messages[f.id].status = "read"
    /\ f.to = messages[f.id].senderId /\ f.by # f.to

\* C10: while the transport of a user's latest registration, which replaced a
\* session with another client id, is open and bound to the user, the
\* registry maps the user to it and every push to the user goes through it
C10_LatestSessionRouted ==
  [][\A u \in Users :
       (/\ lastReg'[u].prev # NoConn
        /\ readyState'[lastReg'[u].ws] = "OPEN"
        /\ userId'[lastReg'[u].ws] = u) =>
         /\ \E e \in connectedClients' : e.userId = u /\ e.ws = lastReg'[u].ws
         /\ \A f \in BagToSet(outbox' (-) outbox) :
              f.to = u => f.ws = lastReg'[u].ws]_vars

\* C11: for every unordered pair of users at most one connection request,
\* counting both directions, has status pending or accepted
C11_OneRequestPerPair ==
  \A a, b \in Accounts :
    a # b =>
    Cardinality({q \in DOMAIN connectionRequests :
                   /\ Pair(connectionRequests[q].senderId,
                           connectionRequests[q].receiverId) = Pair(a, b)
                   /\ connectionRequests[q].status \in {"pending", "accepted"}}) <= 1

\* C12: at most one chat contains both users of a pair, whatever accepts ran
C12_OneChatPerPair ==
  \A a, b \in Accounts :
    a # b => Cardinality({c \in chats : Pair(a, b) \subseteq getChatParticipants(c)}) <= 1

\* C13: when the update of a PATCH resolves on a request that is already
\* accepted or rejected, the row stays as it is, no connection_response is
\* sent and the handler ends there (nothing is created)
C13_SettledRequestNotReprocessed ==
  [][\A h \in Running :
       (/\ h.kind = "patch" /\ h.pc = "updateConnectionRequestStatus"
        /\ h.rid \in DOMAIN connectionRequests
        /\ connectionRequests[h.rid].status \in {"accepted", "rejected"}
        /\ handlers' # handlers /\ h \notin BagToSet(handlers'))
       => /\ connectionRequests' = connectionRequests
          /\ \A f \in pushed' : f.type # "connection_response"
          /\ Finishes(h)]_vars

\* C14: when an accept of a request between two users has created a chat, the
\* chat's participants are the request's sender and receiver, and chat_created, carrying them
\* and a null lastMessage, goes to those of the two that are connected and to
\* nobody else
C14_ChatCreatedForBoth ==
  [][\A h \in Running :
       (/\ h.kind = "patch" /\ h.pc = "enhance" /\ Finishes(h)
        /\ connectionRequests[h.rid].senderId # connectionRequests[h.rid].receiverId) =>
         LET req == connectionRequests[h.rid]
             both == {req.senderId, req.receiverId}
         IN /\ getChatParticipants(h.chat) = both
            /\ Cardinality(both) = 2
            /\ \A f \in pushed' :
                 /\ f.type = "chat_created" /\ f.id = h.chat
                 /\ f.to \in both /\ f.users = both /\ f.flag = "null"
            /\ \A u \in both :
                 isUserConnected(u) => \E f \in pushed' : f.to = u /\ f.ws = Route(u)]_vars

\* C16: a connection bound to a user stays bound to that user in every step
\* (it is never unbound or rebound, whatever frame arrives)
C16_BindingIsStable ==
  [][\A w \in Conns : userId[w] # NoUser => userId'[w] = userId[w]]_vars

\* C17: when the close handler of a connection bound to u finishes, u has no
\* registry entry, u's stored status is offline and user_status{u, offline}
\* went to exactly the registered open sessions; the close of a connection
\* that is not bound starts no handler and changes none of these
C17_CloseUnregisters ==
  [][/\ \A h \in Running :
          (h.kind = "close" /\ Finishes(h)) =>
            /\ MapGet(connectedClients', h.user) = {}
            /\ userStatus'[h.user] = "offline"
            /\ BagToSet(sent') =
                 {Frame(e.ws, e.userId, "user_status", h.user, "offline", h.user) :
                    e \in {x \in connectedClients' : readyState'[x.ws] = "OPEN"}}
     /\ \A w \in Conns :
          (readyState[w] # "CLOSED" /\ readyState'[w] = "CLOSED" /\ userId[w] = NoUser) =>
            /\ handlers' = handlers
            /\ connectedClients' = connectedClients
            /\ userStatus' = userStatus
            /\ sent' = EmptyBag]_vars

\* the close handler of a bound connection has finished while another
\* session was registered and open: that session got the offline frame
C17_Witness ==
  \E u \in Users :
    /\ userStatus[u] = "offline" /\ MapGet(connectedClients, u) = {}
    /\ \E w \in Conns : readyState[w] = "CLOSED" /\ userId[w] = u
    /\ \E f \in BagToSet(sent) :
         f.type = "user_status" /\ f.id = u /\ f.status = "offline" /\ f.to # u

\* C15: a message, typing, read, call_request, call_response,
\* connection_request or connection_response frame taken in on a connection
\* whose userId is unset starts no handler, writes nothing to the store,
\* leaves the registry and the connections as they are and sends no frame
C15_UnboundFramesIgnored ==
  [][(/\ inbound' # inbound
      /\ inbound'.type \in {"message", "typing", "read", "call_request",
                            "call_response", "connection_request",
                            "connection_response"}
      /\ userId[inbound'.ws] = NoUser)
     => /\ handlers' = handlers
        /\ pushed' = {}
        /\ UNCHANGED <<sessionVars, storeVars, otherVars>>]_vars

\* a typing frame was taken in on a connection whose userId is unset while
\* the other participant of the chat was connected
C15_Witness ==
  /\ inbound.type = "typing" /\ userId[inbound.ws] = NoUser
  /\ \E u \in Users : isUserConnected(u)
  /\ pushed = {} /\ handlers = EmptyBag

\* C18: the relay of a typing frame of bound user u sends one typing frame to
\* each connected participant of the chat other than u and to nobody else,
\* with the chatId, userId = u and an isTyping the receiving client reads as
\* the inbound one; store and registry stay as they are
C18_TypingRelayedVerbatim ==
  [][\A h \in Running :
       (h.kind = "typing" /\ Finishes(h) /\ bound(h.ws)) =>
         /\ {f.to : f \in pushed'} = notifyTargets(h.id, userId[h.ws])
         /\ \A f \in pushed' :
              /\ f.type = "typing" /\ f.id = h.id /\ f.users = {userId[h.ws]}
              /\ isTypingRead(f.flag) = isTypingRead(h.flag)
         /\ UNCHANGED <<sessionVars, storeVars>>]_vars

\* C19: a malformed frame on a connection sends one error frame on that
\* connection and no other frame, and leaves every connection's state and
\* binding and the registry as they are
C19_MalformedFrameIsolated ==
  [][(inbound' # inbound /\ inbound'.type \in MalformedKinds) =>
       /\ pushed' = errorFrame(inbound'.ws)
       /\ UNCHANGED <<sessionVars, handlers>>]_vars

\* C20: for a message whose push to one recipient threw, every other
\* participant reachable at routing was still pushed the message frame, and on
\* the live path the stored status was still raised and the open sender still
\* got its one message_sent
C20_PushFailureIsolated ==
  \A t \in thrown :
    audit[t.id].done =>
      /\ \A p \in audit[t.id].reach \ {t.to} :
           \E f \in BagToSet(outbox) : f.type = "message" /\ f.id = t.id /\ f.to = p
      /\ audit[t.id].via = "ws" =>
           /\ StatusRank(messages[t.id].status) >= StatusRank("delivered")
           /\ audit[t.id].senderOpen => FramesOf(outbox, "message_sent", t.id) = 1

\* exactly one frame, an error frame on transport w
OnlyError(F, w) ==
  /\ Cardinality(F) = 1
  /\ \A f \in F : f.ws = w /\ f.type = "error"

\* C21: when persisting a submission fails, by validation or by the insert
\* being rejected, the live path sends an error frame on the submitting
\* connection and the durable path answers 400 or 500; no row is stored and
\* no message or message_sent frame is sent
C21_PersistFailureReported ==
  [][/\ \A h \in Running :
          (h.pc = "createMessage" /\ Finishes(h)) =>
            /\ messages' = messages /\ outbox' = outbox
            /\ h.kind = "message" => OnlyError(pushed', h.ws)
            /\ h.kind = "post" => response' = 500 /\ pushed' = pushed
     /\ (inbound' # inbound /\ inbound'.type = "bad_message") =>
          /\ OnlyError(pushed', inbound'.ws)
          /\ UNCHANGED <<messages, outbox, handlers>>
     /\ (inbound' # inbound /\ inbound'.type = "bad_post") =>
          /\ response' = 400
          /\ UNCHANGED <<messages, outbox, handlers, pushed>>]_vars

\* a live submission whose insert was rejected has ended with the error frame
C21_Witness ==
  /\ count.ops = 1 /\ inbound = NoFrame /\ handlers = EmptyBag
  /\ messages = <<>> /\ outbox = EmptyBag
  /\ \E w \in Conns : OnlyError(pushed, w)

\* C22: no stored message row lacks both content and media, and every row's
\* chatId and senderId reference an existing chat and user
C22_StoredRowsAreValid ==
  \A i \in DOMAIN messages :
    /\ messages[i].content # NoContent
    /\ references(messages[i].chatId, messages[i].senderId)

\* C23: once no handler is suspended, every message row has isRead TRUE
\* exactly when its status is 'read'
C23_ReadFlagMatchesStatus ==
  handlers = EmptyBag =>
    \A i \in DOMAIN messages :
      messages[i].isRead <=> messages[i].status = "read"

\* C25: a message whose submission has been handled and that nobody has read
\* is stored as 'delivered' exactly when a recipient was pushed its message
\* frame, and as 'sent' otherwise
C25_DeliveredIffPushed ==
  \A i \in DOMAIN messages :
    (audit[i].done /\ ~messages[i].isRead /\ messages[i].status # "read") =>
      /\ messages[i].status = "delivered" <=> FramesOf(outbox, "message", i) >= 1
      /\ messages[i].status \in {"sent", "delivered"}

\* the step in which createMessage resolves for submission h
Inserts(h) ==
  /\ h.pc = "createMessage"
  /\ handlers' = BagAdd(BagRemove(handlers, h),
       [h EXCEPT !.pc = "getChatParticipants", !.mid = Len(messages) + 1])

\* C30: the row a live submission stores has the user bound to the
\* submitting connection as senderId, the row a durable submission stores
\* has the authenticated user
C30_SenderIsSubmitter ==
  [][\A h \in Running :
       Inserts(h) =>
         messages'[Len(messages')].senderId =
           IF h.kind = "message" THEN userId[h.ws] ELSE h.user]_vars

\* C26: when createChat or an addParticipantToChat call fails in an accept,
\* the caller gets 500, the request keeps the status it had (no rollback), no
\* row is removed and every user's chat list stays as the rows make it
C26_FailedAcceptKeepsStatus ==
  [][\A h \in Running :
       (/\ h.kind = "patch"
        /\ h.pc \in {"createChat", "addParticipantToChat", "addSender"}
        /\ Finishes(h)) =>
         /\ response' = 500
         /\ connectionRequests' = connectionRequests
         /\ UNCHANGED <<chats, chatParticipants>>
         /\ \A u \in Accounts : getChatsByUserId(u)' = getChatsByUserId(u)
         /\ pushed' = {}]_vars

\* an accept failed after the first participant insert: the request is still
\* accepted and the chat has one participant
C26_Witness ==
  /\ response = 500 /\ handlers = EmptyBag
  /\ \E q \in DOMAIN connectionRequests : connectionRequests[q].status = "accepted"
  /\ \E c \in chats : Cardinality(getChatParticipants(c)) = 1

\* C27: a connection request between two users is stored only when no request
\* exists for that pair of users in either direction
C27_DuplicateRequestRejected ==
  [][Len(connectionRequests') > Len(connectionRequests) =>
       LET new == connectionRequests'[Len(connectionRequests')] IN
       new.senderId # new.receiverId =>
         \A q \in DOMAIN connectionRequests :
           Pair(connectionRequests[q].senderId, connectionRequests[q].receiverId)
             # Pair(new.senderId, new.receiverId)]_vars

\* C24: every frame a handler sends, on taking a frame in or on resuming
\* after an await, goes through a transport whose readyState is OPEN
C24_NoSendOnClosedTransport ==
  [][(\/ inbound' # inbound
      \/ \E h \in Running :
           /\ h.kind \in {"typing", "call_request", "connection_response"}
           /\ Finishes(h)) =>
       \A f \in pushed' : readyState'[f.ws] = "OPEN"]_vars

\* C28: the frame of one sendMessage call is handed to socket.send at most
\* once, over the immediate attempt, the retries and the replay of the queue
C28_TransmittedAtMostOnce ==
  \A m \in DOMAIN client.transmitted : client.transmitted[m] <= 1

\* C29: a close event schedules exactly one reconnect, after a delay of
\* 1000 * 2^attempt ms capped at 30000 ms whatever the close code, and counts
\* the attempt; an open resets the count to 0
C29_ReconnectBackoff ==
  [][/\ client'.closes # client.closes =>
          /\ client'.reconnectDelay = exponentialDelay(client.attempt)
          /\ client'.reconnectDelay <= 30000
          /\ client'.reconnects = client.reconnects + 1
          /\ client'.attempt = client.attempt + 1
     /\ (\E k \in DOMAIN client.sockets :
           client.sockets[k] = "CONNECTING" /\ client'.sockets[k] = "OPEN") =>
          client'.attempt = 0]_vars

\* C31: every registry entry u -> transport belongs to a connection bound to
\* u, and no entry refers to a closed transport whose close handler has run
C31_RegistryMatchesBinding ==
  \A e \in connectedClients :
    /\ userId[e.ws] = e.userId
    /\ ~(/\ readyState[e.ws] = "CLOSED"
         /\ \A h \in Running : ~(h.kind = "close" /\ h.ws = e.ws))

\* C32: a message row of chat c is stored only for a submitter who is a
\* participant of c: the user bound to the submitting connection on the live
\* path, the authenticated user on the durable path
C32_SubmitterIsParticipant ==
  [][\A h \in Running :
       Inserts(h) =>
         (IF h.kind = "message" THEN userId[h.ws] ELSE h.user)
           \in getChatParticipants(h.chatId)]_vars

\* the step in which read handler h writes to the message row: the read
\* flag after markMessageAsRead, the status after db.update
ReadWrites(h) ==
  /\ h.kind = "read" /\ h.mid \in DOMAIN messages
  /\ \/ /\ h.pc = "markMessageAsRead"
        /\ handlers' = BagAdd(BagRemove(handlers, h),
             [h EXCEPT !.pc = "updateStatus", !.sender = messages[h.mid].senderId])
     \/ /\ h.pc = "updateStatus"
        /\ MovesTo(h, "getUser")

\* C33: a read frame from the message's sender or from a user who is not a
\* participant of the message's chat leaves the message rows as they are
C33_OnlyRecipientMarksRead ==
  [][\A h \in Running :
       (/\ ReadWrites(h)
        /\ \/ userId[h.ws] = messages[h.mid].senderId
           \/ userId[h.ws] \notin getChatParticipants(messages[h.mid].chatId))
       => messages' = messages]_vars

\* the step in which PATCH handler h resumes after updateConnectionRequestStatus
PatchWrites(h) ==
  /\ h.kind = "patch" /\ h.pc = "updateConnectionRequestStatus"
  /\ h.rid \in DOMAIN connectionRequests
  /\ \/ Finishes(h)
     \/ handlers' = BagAdd(BagRemove(handlers, h),
          [h EXCEPT !.pc = "getChatsByUserId",
                    !.other = connectionRequests[h.rid].senderId])

\* C34: a PATCH by a user who is not the request's receiver leaves the
\* request row as it is and does not go on to create a chat
C34_OnlyReceiverDecides ==
  [][\A h \in Running :
       (PatchWrites(h) /\ h.user # connectionRequests[h.rid].receiverId) =>
         /\ connectionRequests' = connectionRequests
         /\ Finishes(h)]_vars

\* C35: when the close handler of a transport finishes while the user's
\* registry entry refers to another, open transport bound to the user, the
\* stored status of the user is left alone and no user_status{u, offline}
\* frame is broadcast
C35_EvictedCloseKeepsOnline ==
  [][\A h \in Running :
       (/\ h.kind = "close" /\ Finishes(h)
        /\ \E e \in connectedClients :
             /\ e.userId = h.user /\ e.ws # h.ws
             /\ readyState[e.ws] = "OPEN" /\ userId[e.ws] = h.user) =>
         /\ userStatus'[h.user] = userStatus[h.user]
         /\ \A f \in BagToSet(sent') :
              ~(f.type = "user_status" /\ f.id = h.user /\ f.status = "offline")]_vars

\* sockets of the browser that are connecting or open
LiveSockets ==
  {k \in DOMAIN client.sockets : client.sockets[k] \in {"CONNECTING", "OPEN"}}

\* C36: at most one socket is connecting or open, and socketInstance refers
\* to it
C36_SingleLiveSocket ==
  /\ Cardinality(LiveSockets) <= 1
  /\ \A k \in LiveSockets : client.socketInstance = k

\* the ids of the entries of the cache
IdsOf(list) == {list[i].id : i \in DOMAIN list}

UniqueIds(list) ==
  \A i, j \in DOMAIN list : list[i].id = list[j].id => i = j

\* the step takes a frame of the given type into the Chat page
Takes(type) ==
  /\ chatPage'.handled = chatPage.handled + 1
  /\ chatPage'.frame.type = type

\* C37: a 'message' frame of the selected chat from another user whose id is
\* not in the list appends one entry with that id and leaves the others as
\* they were, and such a step never makes two entries share an id
C37_NewIdAppendedOnce ==
  [][(/\ Takes("message")
      /\ chatPage'.frame.senderId # Me
      /\ chatPage'.frame.chatId = selectedChatId) =>
       /\ chatPage'.frame.id \notin IdsOf(chatPage.messages) =>
            /\ Len(chatPage'.messages) = Len(chatPage.messages) + 1
            /\ SubSeq(chatPage'.messages, 1, Len(chatPage.messages)) = chatPage.messages
            /\ chatPage'.messages[Len(chatPage'.messages)].id = chatPage'.frame.id
       /\ UniqueIds(chatPage.messages) => UniqueIds(chatPage'.messages)]_vars

\* the positions of the cache whose entry the step changes
Changed ==
  {i \in DOMAIN chatPage.messages :
     i \notin DOMAIN chatPage'.messages \/ chatPage'.messages[i] # chatPage.messages[i]}

Pending == {i \in DOMAIN chatPage.messages : chatPage.messages[i].status = "sending"}

\* C38: a 'message_sent' frame with a messageId and a status changes at most
\* one entry of the list and keeps the ids of the list distinct; when no
\* entry has the messageId yet and optimistic entries are pending, exactly
\* one pending entry takes the messageId and the status, for 'sent' and for
\* 'delivered'
C38_AckUpdatesOneEntry ==
  [][(Takes("message_sent") /\ chatPage'.frame.id # 0) =>
       /\ Len(chatPage'.messages) = Len(chatPage.messages)
       /\ Cardinality(Changed) <= 1
       /\ UniqueIds(chatPage.messages) => UniqueIds(chatPage'.messages)
       /\ (chatPage'.frame.id \notin IdsOf(chatPage.messages) /\ Pending # {}) =>
            \E i \in Pending :
              /\ Changed = {i}
              /\ chatPage'.messages[i].id = chatPage'.frame.id
              /\ chatPage'.messages[i].status = chatPage'.frame.status]_vars

\* C39: no step moves the status of an entry of the list backward in the
\* order sending < sent < delivered < read
C39_ListStatusNeverRegresses ==
  [][\A i \in DOMAIN chatPage.messages :
       /\ i \in DOMAIN chatPage'.messages
       /\ StatusRank(chatPage'.messages[i].status)
            >= StatusRank(chatPage.messages[i].status)]_vars
====
